---- MODULE Spec2Model ----
(***************************************************************************)
(* Interstate '76 .GEO importer (batch): the binary parser                 *)
(* parse_geo_classic, the mesh builder build_mesh and the batch loop of    *)
(* I76_OT_ImportGEOClassicBatch.execute, as a state machine.               *)
(*                                                                         *)
(* A file on disk is a record: whether it can be opened, its size in       *)
(* bytes, the two counts its header declares and the face records it       *)
(* holds.  The parser walks it with a stream position, one action per      *)
(* block of reads; the builder runs one action per loop iteration.         *)
(* Vertex positions, normals and the scale do not decide any property      *)
(* checked here: the vertex list is modelled by its length.                *)
(***************************************************************************)
EXTENDS Integers, Sequences, FiniteSets, TLC

VARIABLES
    materials,      \* bpy.data.materials: the host's material datablocks
    batch,          \* how many times execute has been invoked
    nfiles,         \* len(filepaths)
    idx,            \* position of the for loop in filepaths (1-based)
    pc,             \* control point
    mat_cache,      \* execute's mat_cache: texture name -> material
    imported,       \* execute's imported
    errors,         \* execute's errors: (path, message) pairs
    linked,         \* paths whose object was linked into the collection
    created,        \* bpy.data.materials.new calls made by this batch
    file,           \* the file at filepaths[idx]
    pos,            \* stream position of f
    vct,            \* parse_geo_classic's vct (len(geo["verts"]) afterwards)
    fct,            \* parse_geo_classic's fct
    faces,          \* parse_geo_classic's faces (geo["faces"] afterwards)
    cur,            \* the face being read: its tex, nv and refs so far
    ob_materials,   \* build_mesh's ob.data.materials
    tris,           \* build_mesh's bm.faces, in creation order
    fi,             \* build_mesh's position in geo["faces"] (1-based)
    ti,             \* build_mesh's i of the fan loop (0-based, as in the code)
    entry           \* history: execute's locals when the file was opened

vars == <<materials, batch, nfiles, idx, pc, mat_cache, imported, errors,
          linked, created, file, pos, vct, fct, faces, cur, ob_materials,
          tris, fi, ti, entry>>

execVars == <<batch, nfiles, mat_cache, imported, errors, linked, created>>
parseVars == <<file, pos, vct, fct, faces, cur, entry>>
buildVars == <<ob_materials, tris, fi, ti>>

-----------------------------------------------------------------------------
(* Bounds of the model. *)

MaxFiles == 2
MaxBatches == 2
MaxFaces == 2
MaxCorners == 4
MaxRefs == 6
MaxIndex == 3
MaxCut == 56

(* Program constants. *)

MinSize == 64
MaxCount == 2000000

-----------------------------------------------------------------------------
(* Arithmetic and sequence helpers. *)

Min(a, b) == IF a <= b THEN a ELSE b

Max(a, b) == IF a >= b THEN a ELSE b

RECURSIVE SumSeq(_)
SumSeq(s) == IF s = <<>> THEN 0 ELSE Head(s) + SumSeq(Tail(s))

Range(s) == {s[i] : i \in DOMAIN s}

-----------------------------------------------------------------------------
(* Binary helpers.  f.read(n) returns the bytes left when fewer than n are *)
(* left, and moves the position by what it returned.                       *)

ReadGot(p, n, size) == Min(n, Max(size - p, 0))

(* rU32 and rF32: struct.unpack raises struct.error on fewer than 4 bytes. *)
rU32Raises(p, size) == ReadGot(p, 4, size) < 4

(* rCSTR(f, n) on a field holding the string raw, of at most one           *)
(* character, then zero bytes: the text before the first zero byte of what *)
(* was read.                                                               *)
rCSTR(raw, got) == IF got >= 1 THEN raw ELSE ""

(* The reads of parse_geo_classic before the counts check, in order:       *)
(* magic, _u1, name, vct, fct, _u2.                                        *)
HeaderReads == <<4, 4, 16, 4, 4, 4>>

(* A color read as 4 bytes and flags read as 4. *)
FaceReadsWide == <<4, 4, 4, 16, 4, 4, 13, 4, 4>>

(* The reads of one face before its corners, in order: face_id, nv, color, *)
(* plane, unknown, flags, tex, unknown, unknown.                           *)
FaceReads == <<4, 4, 3, 16, 4, 3, 13, 4, 4>>

(* The reads of one corner: vi, ni, u, v. *)
CornerReads == <<4, 4, 4, 4>>

(* The position after the reads rs from position p of a file of size. *)
RECURSIVE AfterReads(_, _, _)
AfterReads(p, rs, size) ==
    IF rs = <<>> THEN p
    ELSE AfterReads(p + ReadGot(p, Head(rs), size), Tail(rs), size)

(* The position after a list comprehension of k rF32 reads, which stops at *)
(* the first short one.                                                    *)
AfterFloats(p, k, size) ==
    IF p + 4 * k <= size THEN p + 4 * k ELSE Max(p, size)

(* A counts check that stops short of the limit. *)
CountsBelow(v, f) == 1 <= v /\ v < MaxCount /\ 1 <= f /\ f < MaxCount

(* The counts check of parse_geo_classic. *)
CountsOK(v, f) == 1 <= v /\ v <= MaxCount /\ 1 <= f /\ f <= MaxCount

-----------------------------------------------------------------------------
(* Files.  A face record of a file holds its texture name field and its    *)
(* corners; a corner holds its vertex index and its UV pair.  The UV pair  *)
(* of the k-th corner of a face is k, so that corners stay apart.          *)

NoFile == [exists |-> FALSE, size |-> 0, vct |-> 0, fct |-> 0, faces |-> <<>>]

NoFace == [tex |-> "", nv |-> 0, refs |-> <<>>]

Corners(g) == [k \in DOMAIN g |-> [vi |-> g[k], uv |-> k]]

FaceRecords(NV, TEX, VI) ==
    {[tex |-> t, refs |-> Corners(g)] :
        t \in TEX, g \in UNION {[1..n -> VI] : n \in NV}}

TotalCorners(fs) == SumSeq([j \in DOMAIN fs |-> Len(fs[j].refs)])

(* The bytes parse_geo_classic asks for on v vertices and the faces fs:    *)
(* the header, 3 floats a vertex and 3 a normal, and for a face what is    *)
(* read before its corners and 16 bytes a corner.                          *)
LayoutSize(v, fs) ==
    36 + 24 * v + SumSeq([j \in DOMAIN fs |-> 55 + 16 * Len(fs[j].refs)])

(* A family of files: the counts they declare (vc, fc), the face records *)
(* they are made of (faces), at most refs corners in all, cut short by a   *)
(* number of bytes of cut (negative: trailing bytes); and files of a size  *)
(* of small, too short to hold a face.  A file holds no more faces than    *)
(* it declares.                                                            *)
GeoFile(v, c, fs, s) ==
    [exists |-> TRUE, size |-> s, vct |-> v, fct |-> c, faces |-> fs]

Sizes(In, v, fs) == {z \in {LayoutSize(v, fs) - k : k \in In.cut} : z >= 0}

-----------------------------------------------------------------------------
(* Materials.  A material datablock is identified by its name: the name it *)
(* was asked for, and the number of the ".001" suffix the host added to    *)
(* keep names unique (0: none).                                            *)

NoMaterials == [t \in {} |-> 0]

(* Whether m.name is the string t: a suffixed name is no texture name,    *)
(* texture names being at most one character or "i76_default".            *)
NameIs(m, t) == m.n = 0 /\ m.tex = t

(* bpy.data.materials.new(t): a datablock named t, or t with the first     *)
(* free suffix when the name is taken.                                     *)
NewMaterial(t) ==
    LET taken == {m.n : m \in {x \in materials : x.tex = t}}
        k == CHOOSE i \in 0..Cardinality(taken) : i \notin taken
    IN  [tex |-> t, n |-> k]

-----------------------------------------------------------------------------
(* execute: the state after construction, and the start of a batch.        *)

Init ==
    /\ materials = {}
    /\ batch = 0
    /\ nfiles = 0
    /\ idx = 0
    /\ pc = "idle"
    /\ mat_cache = NoMaterials
    /\ imported = 0
    /\ errors = <<>>
    /\ linked = <<>>
    /\ created = 0
    /\ file = NoFile
    /\ pos = 0
    /\ vct = 0
    /\ fct = 0
    /\ faces = <<>>
    /\ cur = NoFace
    /\ ob_materials = <<>>
    /\ tris = <<>>
    /\ fi = 0
    /\ ti = 0
    /\ entry = [imported |-> 0, errors |-> <<>>, linked |-> <<>>,
                mat_cache |-> NoMaterials]

(* The locals of parse_geo_classic and build_mesh before a file is read. *)
FreshFile(f) ==
    /\ file' = f
    /\ pos' = 0
    /\ vct' = 0
    /\ fct' = 0
    /\ faces' = <<>>
    /\ cur' = NoFace
    /\ ob_materials' = <<>>
    /\ tris' = <<>>
    /\ fi' = 0
    /\ ti' = 0

(* The operator is invoked on a selection of n files, n from NF (filepaths *)
(* is never empty), at most NB times.                                      *)
Execute(NB, NF) ==
    /\ pc \in {"idle", "done"}
    /\ batch < NB
    /\ batch' = batch + 1
    /\ \E n \in NF : nfiles' = n
    /\ idx' = 1
    /\ mat_cache' = NoMaterials
    /\ imported' = 0
    /\ errors' = <<>>
    /\ linked' = <<>>
    /\ created' = 0
    /\ FreshFile(NoFile)
    /\ entry' = [imported |-> 0, errors |-> <<>>, linked |-> <<>>,
                 mat_cache |-> NoMaterials]
    /\ pc' = "loop"
    /\ UNCHANGED materials

(* An exception caught outside the loop: the paths left are not tried. *)
RaiseAborts(msg) ==
    /\ errors' = Append(errors, [path |-> idx, msg |-> msg])
    /\ idx' = nfiles + 1
    /\ pc' = "loop"
    /\ UNCHANGED <<imported, linked>>

(* except Exception as e: errors.append((path, str(e))), and the loop goes *)
(* on with the next path.                                                  *)
Raise(msg) ==
    /\ errors' = Append(errors, [path |-> idx, msg |-> msg])
    /\ idx' = idx + 1
    /\ pc' = "loop"
    /\ UNCHANGED <<imported, linked>>

(* The end of the loop: the report. *)
Report ==
    /\ pc = "loop"
    /\ idx > nfiles
    /\ pc' = "done"
    /\ UNCHANGED <<materials, idx, execVars, parseVars, buildVars>>

-----------------------------------------------------------------------------
(* parse_geo_classic. *)

(* What follows open(path), os.path.getsize and the size check on f. *)
Opened(f) ==
    /\ FreshFile(f)
    /\ entry' = [imported |-> imported, errors |-> errors, linked |-> linked,
                 mat_cache |-> mat_cache]
    /\ IF ~f.exists THEN Raise("FileNotFoundError")
       ELSE IF f.size < MinSize THEN Raise("File too small to be a GEO")
       ELSE /\ pc' = "header"
            /\ UNCHANGED <<idx, imported, errors, linked>>

(* The next path of the loop is opened: a missing file, or one of the      *)
(* family In.                                                              *)
OpenFile(In) ==
    /\ pc = "loop"
    /\ idx <= nfiles
    /\ \/ Opened(NoFile)
       \/ \E v \in In.vc, c \in In.fc, s \in In.small :
            Opened(GeoFile(v, c, <<>>, s))
       \/ \E v \in In.vc, c \in In.fc :
            \E n \in 0..Min(c, MaxFaces) :
              \E fs \in [1..n -> In.faces] :
                /\ TotalCorners(fs) <= In.refs
                /\ \E s \in Sizes(In, v, fs) : Opened(GeoFile(v, c, fs, s))
    /\ UNCHANGED <<materials, batch, nfiles, mat_cache, created>>

(* magic, _u1, name, vct, fct, _u2 and the counts check. *)
ReadHeader ==
    /\ pc = "header"
    /\ pos' = AfterReads(pos, HeaderReads, file.size)
    /\ IF pos' < pos + SumSeq(HeaderReads)
       THEN /\ Raise("struct.error")
            /\ UNCHANGED <<vct, fct>>
       ELSE /\ vct' = file.vct
            /\ fct' = file.fct
            /\ IF CountsOK(file.vct, file.fct)
               THEN /\ pc' = "verts"
                    /\ UNCHANGED <<idx, imported, errors, linked>>
               ELSE Raise("Unreasonable counts")
    /\ UNCHANGED <<materials, batch, nfiles, mat_cache, created, file, faces,
                   cur, buildVars, entry>>

(* verts and norms: 3 floats a vertex, twice. *)
ReadVerts ==
    /\ pc = "verts"
    /\ pos' = AfterFloats(pos, 6 * vct, file.size)
    /\ IF pos' < pos + 24 * vct
       THEN Raise("struct.error")
       ELSE /\ pc' = "face"
            /\ UNCHANGED <<idx, imported, errors, linked>>
    /\ UNCHANGED <<materials, batch, nfiles, mat_cache, created, file, vct,
                   fct, faces, cur, buildVars, entry>>

(* faces.append({"tex": tex, "refs": refs}), and where the loops go next. *)
FaceDone(face) ==
    /\ faces' = Append(faces, [tex |-> face.tex, refs |-> face.refs])
    /\ pc' = IF Len(faces) + 1 = fct THEN "parsed" ELSE "face"

(* The texture name of a face: rCSTR(f, 13) or "i76_default". *)
TexOf(raw, got) ==
    IF rCSTR(raw, got) = "" THEN "i76_default" ELSE rCSTR(raw, got)

(* One face up to its corners: face_id, nv, the opaque blocks and tex. *)
ReadFaceHeader ==
    /\ pc = "face"
    /\ pos' = AfterReads(pos, FaceReads, file.size)
    /\ IF rU32Raises(pos, file.size) \/ rU32Raises(pos + 4, file.size)
       THEN /\ Raise("struct.error")
            /\ UNCHANGED <<faces, cur>>
       ELSE LET rec == file.faces[Len(faces) + 1]
                at == AfterReads(pos, SubSeq(FaceReads, 1, 6), file.size)
                face == [tex |-> TexOf(rec.tex, ReadGot(at, 13, file.size)),
                         nv |-> Len(rec.refs), refs |-> <<>>]
            IN  /\ cur' = face
                /\ IF face.nv = 0
                   THEN FaceDone(face)
                   ELSE pc' = "corner" /\ UNCHANGED faces
                /\ UNCHANGED <<idx, imported, errors, linked>>
    /\ UNCHANGED <<materials, batch, nfiles, mat_cache, created, file, vct,
                   fct, buildVars, entry>>

(* One corner: vi, ni, u, v. *)
ReadCorner ==
    /\ pc = "corner"
    /\ pos' = AfterReads(pos, CornerReads, file.size)
    /\ IF pos' < pos + SumSeq(CornerReads)
       THEN /\ Raise("struct.error")
            /\ UNCHANGED <<faces, cur>>
       ELSE LET ref == file.faces[Len(faces) + 1].refs[Len(cur.refs) + 1]
                face == [cur EXCEPT !.refs = Append(@, ref)]
            IN  /\ cur' = face
                /\ IF Len(face.refs) = face.nv
                   THEN FaceDone(face)
                   ELSE pc' = "corner" /\ UNCHANGED faces
                /\ UNCHANGED <<idx, imported, errors, linked>>
    /\ UNCHANGED <<materials, batch, nfiles, mat_cache, created, file, vct,
                   fct, buildVars, entry>>

-----------------------------------------------------------------------------
(* build_mesh. *)

(* bm, verts, me and ob are created; nothing is in them yet. *)
BuildBegin ==
    /\ pc = "parsed"
    /\ ob_materials' = <<>>
    /\ tris' = <<>>
    /\ fi' = 1
    /\ ti' = 2
    /\ pc' = "mats"
    /\ UNCHANGED <<materials, idx, execVars, parseVars>>

(* mat_cache[t] = m. *)
Put(cache, t, m) ==
    [x \in DOMAIN cache \cup {t} |-> IF x = t THEN m ELSE cache[x]]

(* A material created for every face, cached or not. *)
CreatesAlways(cache, t) == TRUE

(* if t not in mat_cache. *)
Creates(cache, t) == t \notin DOMAIN cache

(* if mat_cache[t].name not in [m.name for m in ob.data.materials]. *)
Registers(obm, m) == m \notin Range(obm)

(* One iteration of the materials loop. *)
MaterialStep ==
    /\ pc = "mats"
    /\ LET t == faces[fi].tex
           m == IF Creates(mat_cache, t) THEN NewMaterial(t) ELSE mat_cache[t]
       IN  /\ IF Creates(mat_cache, t)
              THEN /\ materials' = materials \cup {m}
                   /\ mat_cache' = Put(mat_cache, t, m)
                   /\ created' = created + 1
              ELSE UNCHANGED <<materials, mat_cache, created>>
           /\ ob_materials' = IF Registers(ob_materials, m)
                              THEN Append(ob_materials, m)
                              ELSE ob_materials
    /\ IF fi = Len(faces)
       THEN fi' = 1 /\ pc' = "fan"
       ELSE fi' = fi + 1 /\ pc' = "mats"
    /\ UNCHANGED <<batch, nfiles, idx, imported, errors, linked, parseVars,
                   tris, ti>>

(* mat_index_of.get(face["tex"], 0): mat_index_of maps each material's     *)
(* name to its position in ob.data.materials (0-based).                    *)
MaterialIndex(obm, t) ==
    IF \E i \in DOMAIN obm : NameIs(obm[i], t)
    THEN (CHOOSE i \in DOMAIN obm : NameIs(obm[i], t)) - 1
    ELSE 0

(* A strip instead of a fan. *)
StripCorners(refs, i) == <<refs[i - 1], refs[i], refs[i + 1]>>

(* a, b and c of iteration i of the fan over refs (i as in the code). *)
FanCorners(refs, i) == <<refs[1], refs[i], refs[i + 1]>>

(* verts[a[0]], verts[b[0]], verts[c[0]]: IndexError on an index that is   *)
(* not one of the n vertices.                                              *)
IndexRaises(n, abc) == \E k \in 1..3 : abc[k].vi >= n

(* bm.faces.new raises ValueError on a vertex used twice and on a face     *)
(* that exists already on the same vertices.                               *)
FacesNewRaises(bm, abc) ==
    LET vs == {abc[k].vi : k \in 1..3}
    IN  \/ Cardinality(vs) < 3
        \/ \E j \in DOMAIN bm : Range(bm[j].v) = vs

(* The face bm.faces.new makes, with its material_index, smooth and the    *)
(* UVs of its loops.                                                       *)
NewFace(abc, mid) ==
    [v |-> <<abc[1].vi, abc[2].vi, abc[3].vi>>,
     uv |-> <<abc[1].uv, abc[2].uv, abc[3].uv>>,
     material_index |-> mid,
     smooth |-> TRUE]

(* Where the loops stand after iteration i of the fan over n corners. *)
NextFan(n, i) == IF i + 1 < n THEN <<fi, i + 1>> ELSE <<fi + 1, 2>>

(* except ValueError: break. *)
BreakOnValueError(n, i) == <<fi + 1, 2>>

(* except ValueError: continue. *)
OnValueError(n, i) == NextFan(n, i)

(* if len(refs) < 3: continue. *)
SkipFace ==
    /\ pc = "fan"
    /\ fi <= Len(faces)
    /\ Len(faces[fi].refs) < 3
    /\ fi' = fi + 1
    /\ UNCHANGED <<materials, idx, pc, execVars, parseVars, ob_materials,
                   tris, ti>>

(* One iteration of the fan loop. *)
Triangle ==
    /\ pc = "fan"
    /\ fi <= Len(faces)
    /\ Len(faces[fi].refs) >= 3
    /\ LET refs == faces[fi].refs
           mid == MaterialIndex(ob_materials, faces[fi].tex)
           abc == FanCorners(refs, ti)
       IN  IF IndexRaises(vct, abc)
           THEN /\ Raise("IndexError")
                /\ UNCHANGED <<tris, fi, ti>>
           ELSE /\ IF FacesNewRaises(tris, abc)
                   THEN /\ tris' = tris
                        /\ fi' = OnValueError(Len(refs), ti)[1]
                        /\ ti' = OnValueError(Len(refs), ti)[2]
                   ELSE /\ tris' = Append(tris, NewFace(abc, mid))
                        /\ fi' = NextFan(Len(refs), ti)[1]
                        /\ ti' = NextFan(Len(refs), ti)[2]
                /\ UNCHANGED <<idx, pc, imported, errors, linked>>
    /\ UNCHANGED <<materials, batch, nfiles, mat_cache, created, parseVars,
                   ob_materials>>

(* bm.to_mesh(me) and return ob; execute links ob and counts the file. *)
Finish ==
    /\ pc = "fan"
    /\ fi > Len(faces)
    /\ linked' = Append(linked, idx)
    /\ imported' = imported + 1
    /\ idx' = idx + 1
    /\ pc' = "loop"
    /\ UNCHANGED <<materials, batch, nfiles, mat_cache, errors, created,
                   parseVars, buildVars>>

-----------------------------------------------------------------------------
(* The inputs of the specifications. *)

(* Batches: files of MaxIndex vertices whose faces are empty, a triangle,  *)
(* or a triangle with an index out of range, whole or cut by one byte,     *)
(* and a file below the minimum size.                                      *)
BatchFiles ==
    [vc |-> {MaxIndex}, fc |-> 1..MaxFaces,
     faces |-> {[tex |-> t, refs |-> Corners(g)] :
                  t \in {"", "a"},
                  g \in {<<>>, <<0, 1, 2>>, <<0, 1, MaxIndex>>}},
     refs |-> 3 * MaxFaces, cut |-> {0, 1}, small |-> {MinSize - 1}]

(* Meshes: every face list of at most MaxRefs corners over the indices     *)
(* 0..MaxIndex, in a whole file of MaxIndex or MaxIndex + 1 vertices.      *)
MeshFiles ==
    [vc |-> {MaxIndex, MaxIndex + 1}, fc |-> 1..MaxFaces,
     faces |-> FaceRecords(0..MaxCorners, {"a"}, 0..MaxIndex),
     refs |-> MaxRefs, cut |-> {0}, small |-> {MinSize - 1}]

(* Streams: every count at and around the limits, every cut of at most     *)
(* MaxCut bytes, a trailing byte, and sizes below the minimum.             *)
StreamFiles ==
    [vc |-> {0, 1, 2, MaxCount, MaxCount + 1},
     fc |-> {0, 1, MaxFaces, MaxCount, MaxCount + 1},
     faces |-> FaceRecords({0, 1, 3}, {"", "a"}, {0}),
     refs |-> 3 * MaxFaces, cut |-> -1..MaxCut,
     small |-> {SumSeq(HeaderReads), MinSize - 1}]

NextOn(In, NB, NF) ==
    \/ Execute(NB, NF)
    \/ OpenFile(In)
    \/ ReadHeader
    \/ ReadVerts
    \/ ReadFaceHeader
    \/ ReadCorner
    \/ BuildBegin
    \/ MaterialStep
    \/ SkipFace
    \/ Triangle
    \/ Finish
    \/ Report

(* One batch of 1..MaxFiles files. *)
Next == NextOn(BatchFiles, 1, 1..MaxFiles)

Spec == Init /\ [][Next]_vars

(* The operator invoked up to MaxBatches times, on one file each time. *)
NextRepeat == NextOn(BatchFiles, MaxBatches, {1})

SpecRepeat == Init /\ [][NextRepeat]_vars

(* One file, every mesh. *)
NextMesh == NextOn(MeshFiles, 1, {1})

SpecMesh == Init /\ [][NextMesh]_vars

(* One file, every stream. *)
NextStream == NextOn(StreamFiles, 1, {1})

SpecStream == Init /\ [][NextStream]_vars

-----------------------------------------------------------------------------
(* What the properties are stated with. *)

(* The file holds all it declares: its counts are within the limits, it    *)
(* holds as many faces as it declares and at least the bytes of its layout.*)
WellFormed(f) ==
    /\ f.exists
    /\ 1 <= f.vct /\ f.vct <= 2000000
    /\ 1 <= f.fct /\ f.fct <= 2000000
    /\ Len(f.faces) = f.fct
    /\ f.size >= 64
    /\ f.size >= LayoutSize(f.vct, f.faces)

(* The file of the path before idx failed, with message msg. *)
FailedWith(msg) ==
    /\ pc \in {"loop", "done"}
    /\ errors # <<>>
    /\ errors[Len(errors)] = [path |-> idx - 1, msg |-> msg]

LastFailed == \E e \in Range(errors) : FailedWith(e.msg)

(* The file of the path before idx was imported. *)
LastImported ==
    /\ pc \in {"loop", "done"}
    /\ linked # <<>>
    /\ linked[Len(linked)] = idx - 1

Increasing(s) == \A i, j \in DOMAIN s : i < j => s[i] < s[j]

(* The fan of a face: (c0, c_{i-1}, c_i) for i = 2..n-1, in that order. *)
Fan(refs) ==
    IF Len(refs) < 3 THEN <<>>
    ELSE [k \in 1..(Len(refs) - 2) |-> <<refs[1], refs[k + 1], refs[k + 2]>>]

RECURSIVE AllFans(_)
AllFans(fs) ==
    IF fs = <<>> THEN <<>> ELSE Fan(fs[1].refs) \o AllFans(Tail(fs))

(* The fan triangles the loops of build_mesh have been through when they   *)
(* stand at face f, iteration i.                                           *)
FansBefore(fs, f, i) ==
    IF f > Len(fs) THEN AllFans(fs)
    ELSE AllFans(SubSeq(fs, 1, f - 1)) \o SubSeq(Fan(fs[f].refs), 1, i - 2)

Vertices(abc) == {abc[k].vi : k \in 1..3}

Triangle3(abc) ==
    [v |-> <<abc[1].vi, abc[2].vi, abc[3].vi>>,
     uv |-> <<abc[1].uv, abc[2].uv, abc[3].uv>>]

(* Of the triangles cs, in order: without those of an index out of range   *)
(* (n vertices), with a repeated index (when degenerate), or on the        *)
(* vertices of one kept before (when coincident); added to acc.            *)
RECURSIVE Kept(_, _, _, _, _)
Kept(cs, n, degenerate, coincident, acc) ==
    IF cs = <<>> THEN acc
    ELSE LET abc == Head(cs)
             drop == \/ \E k \in 1..3 : abc[k].vi >= n
                     \/ degenerate /\ Cardinality(Vertices(abc)) < 3
                     \/ coincident /\ \E j \in DOMAIN acc :
                                        Range(acc[j].v) = Vertices(abc)
         IN  Kept(Tail(cs), n, degenerate, coincident,
                  IF drop THEN acc ELSE Append(acc, Triangle3(abc)))

(* bm.faces, as triangles with their UVs. *)
Emitted == [j \in DOMAIN tris |-> [v |-> tris[j].v, uv |-> tris[j].uv]]

(* The fan loop of build_mesh has started on the current file. *)
InFan == pc = "fan" \/ (pc \in {"loop", "done"} /\ fi >= 1)

InRange(face) == \A k \in DOMAIN face.refs : face.refs[k].vi < vct

Distinct(face) ==
    \A k, l \in DOMAIN face.refs :
        k # l => face.refs[k].vi # face.refs[l].vi

(* The faces the fan loop has been through or stands at. *)
Reached == 1..Min(fi, Len(faces))

-----------------------------------------------------------------------------
(* C1: the batch loop attempts every path in order, whatever fails: at any *)
(* point the paths before idx are exactly the paths imported and the paths *)
(* in errors, each once and in order, imported counts the former, and at   *)
(* the report every path has been attempted, so imported + len(errors) is  *)
(* the number of paths.                                                    *)
C1_EveryPathAttempted ==
    /\ imported = Len(linked)
    /\ Range(linked) \cup {errors[i].path : i \in DOMAIN errors} = 1..(idx - 1)
    /\ Range(linked) \cap {errors[i].path : i \in DOMAIN errors} = {}
    /\ Increasing(linked)
    /\ Increasing([i \in DOMAIN errors |-> errors[i].path])
    /\ pc = "done" => idx = nfiles + 1 /\ imported + Len(errors) = nfiles

(* The first file failed and a later one was imported. *)
C1_Witness ==
    /\ pc = "done"
    /\ errors # <<>> /\ errors[1].path = 1
    /\ imported >= 1
    /\ imported + Len(errors) = nfiles

(* C2: within a batch the cache only grows: a texture name once mapped     *)
(* stays mapped to the same material, one material is created per texture  *)
(* name in the cache, each under its own name, and the material of every   *)
(* face the materials loop has been through is the one of the cache, in    *)
(* the object's material list.                                             *)
C2_CacheAdditive ==
    /\ [](/\ created = Cardinality(DOMAIN mat_cache)
          /\ \A t \in DOMAIN mat_cache :
                mat_cache[t].tex = t /\ mat_cache[t] \in materials
          /\ \A t, u \in DOMAIN mat_cache :
                mat_cache[t] = mat_cache[u] => t = u
          /\ \A j \in DOMAIN faces :
                (pc = "fan" \/ (pc = "mats" /\ j < fi) \/ LastImported)
                => /\ faces[j].tex \in DOMAIN mat_cache
                   /\ mat_cache[faces[j].tex] \in Range(ob_materials))
    /\ [][batch' = batch =>
            \A t \in DOMAIN mat_cache :
                t \in DOMAIN mat_cache' /\ mat_cache'[t] = mat_cache[t]]_vars

(* Two files were imported that share their one texture name. *)
C2_Witness ==
    /\ pc = "done"
    /\ imported = 2
    /\ created = 1
    /\ DOMAIN mat_cache = {"a"}
    /\ entry.mat_cache = mat_cache

(* C3: a face of at least 3 corners with an index out of range among valid *)
(* corners loses only the triangles of that corner: the file is imported,  *)
(* nothing is added to errors, and the mesh holds the other triangles.     *)
C3_OutOfRangeSkipped ==
    (/\ pc = "loop" /\ idx = 2
     /\ WellFormed(file)
     /\ \E j \in DOMAIN file.faces :
            /\ Len(file.faces[j].refs) >= 3
            /\ \E k \in DOMAIN file.faces[j].refs :
                    file.faces[j].refs[k].vi >= file.vct)
    => /\ errors = <<>>
       /\ linked = <<1>>
       /\ imported = 1
       /\ Emitted = Kept(AllFans(faces), vct, TRUE, TRUE, <<>>)

(* C4: a stream that ends before all the declared data never parses: when  *)
(* parse_geo_classic returns, the file holds every byte of the header, the *)
(* vertices, the normals and the faces returned.                           *)
C4_TruncatedNeverParses ==
    pc = "parsed" => file.size >= LayoutSize(vct, faces)

C6_CountsChecked ==
    /\ (pc \in {"loop", "done"} /\ idx = 2 /\ file.exists /\ file.size >= 64)
       => /\ FailedWith("Unreasonable counts")
             <=> ~(/\ 1 <= file.vct /\ file.vct <= 2000000
                   /\ 1 <= file.fct /\ file.fct <= 2000000)
          /\ FailedWith("Unreasonable counts") => pos = 36 /\ faces = <<>>
          /\ ~FailedWith("File too small to be a GEO")
    /\ (pc \in {"loop", "done"} /\ idx = 2 /\ file.exists /\ file.size < 64)
       => /\ FailedWith("File too small to be a GEO")
          /\ pos = 0 /\ vct = 0 /\ fct = 0 /\ faces = <<>>
    /\ pc \in {"verts", "face", "corner", "parsed"}
       => /\ vct = file.vct /\ fct = file.fct
          /\ 1 <= vct /\ vct <= 2000000 /\ 1 <= fct /\ fct <= 2000000

(* 2000001 vertices are rejected once the header has been read. *)
C6_Witness ==
    /\ FailedWith("Unreasonable counts")
    /\ file.vct = 2000001 /\ file.fct = 1
    /\ file.size >= 64
    /\ pos = 36

(* C7: a fan triangle with a repeated index is skipped, and only it: the   *)
(* mesh holds, in order, every fan triangle the loops have been through    *)
(* but those with a repeated index and those on the vertices of an         *)
(* earlier one, and the file fails in build_mesh only at a triangle with   *)
(* an index out of range, never at a repeated one.                         *)
C7_DegenerateSkipped ==
    InFan =>
    /\ [j \in DOMAIN tris |-> tris[j].v]
         = [j \in DOMAIN Kept(FansBefore(faces, fi, ti), vct, TRUE, TRUE, <<>>)
              |-> Kept(FansBefore(faces, fi, ti), vct, TRUE, TRUE, <<>>)[j].v]
    /\ (pc \in {"loop", "done"} /\ fi > Len(faces)) => LastImported
    /\ (pc \in {"loop", "done"} /\ fi <= Len(faces))
       => /\ FailedWith("IndexError")
          /\ \E k \in 1..3 : Fan(faces[fi].refs)[ti - 1][k].vi >= vct

(* The first triangle of a quad repeats a vertex and the second does not:  *)
(* the file is imported and its mesh holds the second triangle only.       *)
C7_Witness ==
    /\ LastImported
    /\ Len(faces) = 2
    /\ Len(faces[1].refs) = 4
    /\ faces[1].refs[1].vi = faces[1].refs[2].vi
    /\ Len(tris) = 1
    /\ tris[1].uv = <<1, 3, 4>>

(* C8, as claimed: a well-formed file is read forward and as laid out: 36 *)
(* bytes of header, 24 bytes a vertex, 57 bytes a face before its corners  *)
(* and 16 bytes a corner; the parse returns with the stream at             *)
(* 36 + 24 V + the sum over the faces of 57 + 16 nv.                       *)
C8_Layout57 ==
    WellFormed(file) =>
    LET done == 36 + 24 * file.vct
                + SumSeq([j \in DOMAIN faces |-> 57 + 16 * Len(faces[j].refs)])
    IN  /\ pc = "verts" => pos = 36
        /\ pc = "face" => pos = done
        /\ pc = "corner" => pos = done + 57 + 16 * Len(cur.refs)
        /\ pc = "parsed" => pos = done

(* C8, amended: a well-formed file is read forward and as laid out: 36     *)
(* bytes of header, 24 bytes a vertex, 55 bytes a face before its corners  *)
(* (4 id + 4 nv + 26 opaque + 13 texture name + 4 + 4) and 16 bytes a      *)
(* corner; the parse returns the declared vertices and faces with the      *)
(* stream at 36 + 24 V + the sum over the faces of 55 + 16 nv.             *)
C8_Layout ==
    WellFormed(file) =>
    LET done == 36 + 24 * file.vct
                + SumSeq([j \in DOMAIN faces |-> 55 + 16 * Len(faces[j].refs)])
    IN  /\ pc = "verts" => pos = 36
        /\ pc = "face" => pos = done
        /\ pc = "corner" => pos = done + 55 + 16 * Len(cur.refs)
        /\ pc = "parsed"
           => /\ pos = done
              /\ vct = file.vct
              /\ Len(faces) = file.fct
              /\ \A j \in DOMAIN faces :
                    faces[j].refs = file.faces[j].refs

(* A file of two faces, one of three corners, that ends where its layout   *)
(* ends has been parsed to its end.                                        *)
C8_Witness ==
    /\ pc = "parsed"
    /\ WellFormed(file)
    /\ Len(faces) = 2
    /\ Len(faces[1].refs) = 3
    /\ pos = file.size

(* C9: every triangle made has the material_index of the material that     *)
(* mat_cache holds for the texture name of its face, and the material list *)
(* of the object holds no material twice.                                  *)
C9_MaterialIndex ==
    /\ [](\A i, j \in DOMAIN ob_materials :
            ob_materials[i] = ob_materials[j] => i = j)
    /\ [][Len(tris') = Len(tris) + 1 =>
            ob_materials[tris'[Len(tris')].material_index + 1]
                = mat_cache[faces[fi].tex]]_vars

(* C10: a file that fails leaves the batch as it was when the file was     *)
(* opened: imported, the objects linked and the material cache are theirs  *)
(* of then, and errors has one entry more.                                 *)
C10_FailureLeavesBatch ==
    LastFailed =>
    /\ imported = entry.imported
    /\ linked = entry.linked
    /\ mat_cache = entry.mat_cache
    /\ errors = Append(entry.errors, errors[Len(errors)])

====
